---- MODULE Spec2Model ----
(***************************************************************************)
(* HealthVer -> MCQA conversion (src/convertdata.py).                      *)
(*                                                                         *)
(* The model follows convert_healthver_to_mcqa: the claim files are        *)
(* merged and tagged with their source split, every claim is run through   *)
(* determine_majority_label and create_search_results, the valid samples   *)
(* are shuffled and split into the calibration and test lists, and the     *)
(* dataset is written.                                                     *)
(*                                                                         *)
(* Python values that the code probes dynamically are modelled with the    *)
(* shape the code probes:                                                  *)
(*   - a dict is a function; a key the dict does not hold is absent from   *)
(*     its DOMAIN, and dict.get(key, default) is Get(d, key, default);     *)
(*   - a raw label is [type, chars]: a str (its characters, so that        *)
(*     .upper() is computed) or a non-str JSON value (null);               *)
(*   - an abstract is [type, items, text]: a list of sentences or a str;   *)
(*   - None returned by determine_majority_label is the string "None".     *)
(***************************************************************************)
EXTENDS Integers, Sequences, FiniteSets, TLC

VARIABLES
    claim_files,        \* split name -> claims read from claims_<split>.jsonl
    corpus_data,        \* documents read from corpus.jsonl
    claim_to_question,  \* claim text -> question text (load_csv_files)
    seed,               \* state of the process-wide random source at start
    pc,                 \* position in convert_healthver_to_mcqa
    all_claims,         \* merged claims, each tagged with source_split
    corpus_dict,        \* str(doc_id) -> corpus document
    i,                  \* number of claims the processing loop has consumed
    valid_samples,      \* samples assembled so far (shuffled in place later)
    skipped_counts,     \* per-reason skip counters
    labels,             \* labels list of the last determine_majority_label call
    correct_answer,     \* value returned by that call
    assembled,          \* history: valid_samples as it was before the shuffle
    rng,                \* current state of the random source
    mcqa_data,          \* the dataset object being built
    output_file,        \* content written to the output file
    run,                \* number of the current invocation of main()
    prev_seed,          \* history: seed of the previous invocation
    prev_output         \* history: output of the previous invocation

vars == <<claim_files, corpus_data, claim_to_question, seed, pc, all_claims,
          corpus_dict, i, valid_samples, skipped_counts, labels,
          correct_answer, assembled, rng, mcqa_data, output_file, run,
          prev_seed, prev_output>>

---------------------------------------------------------------------------
(* Python helpers *)

\* dict.get(key, default)
Get(d, key, default) == IF key \in DOMAIN d THEN d[key] ELSE default

Range(s) == {s[k] : k \in DOMAIN s}

Max(a, b) == IF a >= b THEN a ELSE b

Min(a, b) == IF a <= b THEN a ELSE b

LowerCase ==
    <<"a", "b", "c", "d", "e", "f", "g", "h", "i", "j", "k", "l", "m",
      "n", "o", "p", "q", "r", "s", "t", "u", "v", "w", "x", "y", "z">>

UpperCase ==
    <<"A", "B", "C", "D", "E", "F", "G", "H", "I", "J", "K", "L", "M",
      "N", "O", "P", "Q", "R", "S", "T", "U", "V", "W", "X", "Y", "Z">>

\* the upper-case letter of every lower-case letter
UpperOf ==
    [c \in Range(LowerCase) |->
        UpperCase[CHOOSE n \in DOMAIN LowerCase : LowerCase[n] = c]]

\* Mutant: the raw label is compared without being upper-cased.
UpperSkipped(chars) == chars

\* str.upper() on the characters of a string
Upper(chars) ==
    [k \in DOMAIN chars |->
        IF chars[k] \in DOMAIN UpperOf THEN UpperOf[chars[k]] ELSE chars[k]]

\* a str value, and the JSON null
StrVal(chars) == [type |-> "str", chars |-> chars]

NullVal == [type |-> "none", chars |-> <<>>]

\* the literals the normaliser compares against
SUPPORT_NAMES ==
    { <<"S","U","P","P","O","R","T">>, <<"S","U","P","P","O","R","T","S">> }

CONTRADICT_NAMES ==
    { <<"C","O","N","T","R","A","D","I","C","T">>, <<"R","E","F","U","T","E","S">> }

NEI_NAMES ==
    { <<"N","E","I">>,
      <<"N","O","T","_","E","N","O","U","G","H","_","I","N","F","O">> }

---------------------------------------------------------------------------
(* determine_majority_label *)

\* Normalisation of one raw label.  "raise" stands for the AttributeError of
\* doc_label.upper() on a value that is not a str.
NormalizeLabel(doc_label) ==
    IF doc_label.type # "str" THEN "raise"
    ELSE IF Upper(doc_label.chars) \in SUPPORT_NAMES THEN "SUPPORT"
    ELSE IF Upper(doc_label.chars) \in CONTRADICT_NAMES THEN "CONTRADICT"
    ELSE IF Upper(doc_label.chars) \in NEI_NAMES THEN "NEI"
    ELSE "NEI"

\* evidence_item.get('label', 'NEI') and corpus_dict[..].get('label', 'NEI')
DefaultLabel == StrVal(<<"N","E","I">>)

\* The inner loop over the evidence items of one document: one label per item.
RECURSIVE EvidenceLabels(_)
EvidenceLabels(items) ==
    IF items = <<>> THEN <<>>
    ELSE <<NormalizeLabel(Get(Head(items), "label", DefaultLabel))>>
            \o EvidenceLabels(Tail(items))

\* Mutant: a document without evidence is NEI, the corpus label is not consulted.
DocLabelsNoFallback(doc_id, evidence, cdict) ==
    IF ToString(doc_id) \in DOMAIN evidence
    THEN EvidenceLabels(evidence[ToString(doc_id)])
    ELSE <<"NEI">>

\* The labels one cited document contributes.
DocLabels(doc_id, evidence, cdict) ==
    IF ToString(doc_id) \in DOMAIN evidence
    THEN EvidenceLabels(evidence[ToString(doc_id)])
    ELSE IF ToString(doc_id) \in DOMAIN cdict
         THEN <<NormalizeLabel(Get(cdict[ToString(doc_id)], "label", DefaultLabel))>>
         ELSE <<"NEI">>

\* The outer loop over doc_ids.
RECURSIVE CollectLabels(_, _, _)
CollectLabels(doc_ids, evidence, cdict) ==
    IF doc_ids = <<>> THEN <<>>
    ELSE DocLabels(Head(doc_ids), evidence, cdict)
            \o CollectLabels(Tail(doc_ids), evidence, cdict)

\* The labels appended before the first raise (all of them when none raises).
RECURSIVE BeforeRaise(_)
BeforeRaise(ls) ==
    IF ls = <<>> \/ Head(ls) = "raise" THEN <<>>
    ELSE <<Head(ls)>> \o BeforeRaise(Tail(ls))

Count(ls, l) == Cardinality({k \in DOMAIN ls : ls[k] = l})

\* Keys of Counter(labels): the distinct labels in first-occurrence order.
RECURSIVE CounterKeys(_)
CounterKeys(ls) ==
    IF ls = <<>> THEN <<>>
    ELSE LET init == SubSeq(ls, 1, Len(ls) - 1)
             last == ls[Len(ls)]
         IN IF last \in Range(init) THEN CounterKeys(init)
            ELSE CounterKeys(init) \o <<last>>

\* Counter.most_common(): (label, count) pairs by decreasing count, equal
\* counts in first-occurrence order (a stable sort).
RECURSIVE SortByCount(_, _)
SortByCount(keys, ls) ==
    IF keys = <<>> THEN <<>>
    ELSE LET best == CHOOSE k \in DOMAIN keys :
                        /\ \A m \in DOMAIN keys : Count(ls, keys[m]) <= Count(ls, keys[k])
                        /\ \A m \in 1..(k - 1) : Count(ls, keys[m]) < Count(ls, keys[k])
             rest == [m \in 1..(Len(keys) - 1) |->
                        IF m < best THEN keys[m] ELSE keys[m + 1]]
         IN <<[label |-> keys[best], count |-> Count(ls, keys[best])]>>
                \o SortByCount(rest, ls)

\* Mutant: the counts are read in insertion order, not by decreasing count.
MostCommonUnsorted(ls) ==
    [k \in DOMAIN CounterKeys(ls) |->
        [label |-> CounterKeys(ls)[k], count |-> Count(ls, CounterKeys(ls)[k])]]

MostCommon(ls) == SortByCount(CounterKeys(ls), ls)

\* The final mapping of the chosen label to the answer letter.
AnswerLetter(label) ==
    IF label = "SUPPORT" THEN "A"
    ELSE IF label = "CONTRADICT" THEN "B"
    ELSE IF label = "NEI" THEN "C"
    ELSE "None"

\* Mutant: of two different labels the first one wins.
MajorityRuleFirstWins(ls) ==
    IF Len(ls) <= 2 THEN AnswerLetter(ls[1])
    ELSE LET most_common == MostCommon(ls)
         IN IF Len(most_common) > 1
                /\ most_common[1].count = most_common[2].count
            THEN "None"
            ELSE AnswerLetter(most_common[1].label)

\* The majority label rule over a non-empty list of labels.
MajorityRule(ls) ==
    IF Len(ls) = 1 THEN AnswerLetter(ls[1])
    ELSE IF Len(ls) = 2 THEN
        IF ls[1] = ls[2] THEN AnswerLetter(ls[1])
        ELSE IF Range(ls) = {"NEI", "SUPPORT"} \/ Range(ls) = {"NEI", "CONTRADICT"}
             THEN AnswerLetter(IF "SUPPORT" \in Range(ls) THEN "SUPPORT"
                               ELSE "CONTRADICT")
        ELSE IF Range(ls) = {"SUPPORT", "CONTRADICT"} THEN "None"
        ELSE AnswerLetter(ls[1])
    ELSE LET most_common == MostCommon(ls)
         IN IF Len(most_common) > 1
                /\ most_common[1].count = most_common[2].count
            THEN "None"
            ELSE AnswerLetter(most_common[1].label)

\* determine_majority_label(claim, corpus_dict): the labels list it built, the
\* value it returned, and whether it raised instead of returning.
DetermineMajorityLabel(claim, cdict) ==
    LET doc_ids  == Get(claim, "doc_ids", <<>>)
        evidence == Get(claim, "evidence", <<>>)
        all      == CollectLabels(doc_ids, evidence, cdict)
    IN IF doc_ids = <<>> \/ DOMAIN evidence = {}
       THEN [labels |-> <<>>, result |-> "None", raised |-> FALSE]
       ELSE IF "raise" \in Range(all)
       THEN [labels |-> BeforeRaise(all), result |-> "None", raised |-> TRUE]
       ELSE IF all = <<>>
       THEN [labels |-> all, result |-> "None", raised |-> FALSE]
       ELSE [labels |-> all, result |-> MajorityRule(all), raised |-> FALSE]

---------------------------------------------------------------------------
(* create_search_results *)

\* {str(doc['doc_id']): doc for doc in corpus_data}: the last document wins.
CorpusDict(cdata) ==
    [key \in {ToString(cdata[k].doc_id) : k \in DOMAIN cdata} |->
        LET last == CHOOSE k \in DOMAIN cdata :
                        /\ ToString(cdata[k].doc_id) = key
                        /\ \A m \in DOMAIN cdata :
                              ToString(cdata[m].doc_id) = key => m <= k
        IN cdata[last]]

\* ' '.join(sentences)
RECURSIVE JoinSpace(_)
JoinSpace(sentences) ==
    IF sentences = <<>> THEN ""
    ELSE IF Len(sentences) = 1 THEN sentences[1]
    ELSE sentences[1] \o " " \o JoinSpace(Tail(sentences))

ListVal(items) == [type |-> "list", items |-> items, text |-> ""]

TextVal(text) == [type |-> "str", items |-> <<>>, text |-> text]

\* The record built for one cited document id.
SearchResult(doc_id, cdict) ==
    LET key == ToString(doc_id)
        doc == cdict[key]
        abstract == Get(doc, "abstract", ListVal(<<"Health-related content">>))
    IN [page_name |->
            IF key \in DOMAIN cdict
            THEN Get(doc, "title", "Health Document " \o ToString(doc_id))
            ELSE "Health Document " \o ToString(doc_id),
        page_url |-> "",
        page_snippet |->
            IF key \in DOMAIN cdict
            THEN IF abstract.type = "list" THEN JoinSpace(abstract.items)
                 ELSE IF abstract.text # "" THEN abstract.text
                 ELSE "Health-related content"
            ELSE "Health-related content",
        page_result |-> "",
        page_last_modified |-> ""]

\* Mutant: a cited document the corpus does not hold gets no record.
RECURSIVE SearchResultsOfKnown(_, _)
SearchResultsOfKnown(doc_ids, cdict) ==
    IF doc_ids = <<>> THEN <<>>
    ELSE (IF ToString(Head(doc_ids)) \in DOMAIN cdict
          THEN <<SearchResult(Head(doc_ids), cdict)>> ELSE <<>>)
            \o SearchResultsOfKnown(Tail(doc_ids), cdict)

RECURSIVE SearchResultsOf(_, _)
SearchResultsOf(doc_ids, cdict) ==
    IF doc_ids = <<>> THEN <<>>
    ELSE <<SearchResult(Head(doc_ids), cdict)>> \o SearchResultsOf(Tail(doc_ids), cdict)

CreateSearchResults(claim, cdata) ==
    SearchResultsOf(Get(claim, "doc_ids", <<>>), CorpusDict(cdata))

---------------------------------------------------------------------------
(* sample assembly *)

\* A text is a sequence of tokens; the token " " is whitespace.
RECURSIVE LStrip(_)
LStrip(tokens) ==
    IF tokens # <<>> /\ Head(tokens) = " " THEN LStrip(Tail(tokens)) ELSE tokens

RECURSIVE RStrip(_)
RStrip(tokens) ==
    IF tokens # <<>> /\ tokens[Len(tokens)] = " "
    THEN RStrip(SubSeq(tokens, 1, Len(tokens) - 1))
    ELSE tokens

\* str.strip()
Strip(tokens) == RStrip(LStrip(tokens))

RECURSIVE Text(_)
Text(tokens) == IF tokens = <<>> THEN "" ELSE Head(tokens) \o Text(Tail(tokens))

OptionLines == "\nA. Supported\nB. Refuted\nC. Not Enough Information"

\* The question of a sample: from the CSV mapping, or the default one.
QuestionOf(claim, questions) ==
    LET claim_text    == Get(claim, "claim", <<"No claim text">>)
        question_text == Get(questions, Text(Strip(claim_text)), "")
    IN IF question_text # ""
       THEN question_text \o OptionLines
       ELSE "Is the following health claim supported by evidence: "
                \o Text(claim_text) \o OptionLines

\* The sample built for the claim at index idx whose answer is answer.
MakeSample(claim, idx, answer, cdata, questions) ==
    [id |-> claim.source_split \o "_" \o ToString(Get(claim, "id", idx)),
     question |-> QuestionOf(claim, questions),
     correct_answer |-> answer,
     options |-> <<"A", "B", "C">>,
     search_results |-> CreateSearchResults(claim, cdata)]

---------------------------------------------------------------------------
(* shuffle and split *)

\* The process-wide random source.  Python's generator is deterministic in
\* its state; it is represented by a 16-bit linear congruential generator.
NextRandom(state) == (state * 25173 + 13849) % 65536

\* random's _randbelow(n) on the state just drawn
RandBelow(state, n) == (state \div 256) % n

Swap(s, a, b) ==
    [k \in DOMAIN s |-> IF k = a THEN s[b] ELSE IF k = b THEN s[a] ELSE s[k]]

\* random.shuffle(x): for i in reversed(range(1, len(x))): j = randbelow(i + 1);
\* x[i], x[j] = x[j], x[i].  n is i + 1; the result is the list and the state.
RECURSIVE ShuffleFrom(_, _, _)
ShuffleFrom(x, n, state) ==
    IF n <= 1 THEN [list |-> x, state |-> state]
    ELSE LET s == NextRandom(state)
         IN ShuffleFrom(Swap(x, n, RandBelow(s, n) + 1), n - 1, s)

\* Mutant: the shuffle draws from a source seeded anew in every invocation.
RandomShuffleReseeded(x, state) == ShuffleFrom(x, Len(x), state + 7919 * run)

RandomShuffle(x, state) == ShuffleFrom(x, Len(x), state)

\* Mutant: the upper clamp is missing.
CalibrationCountNoCap(total_samples) == Max(5, total_samples \div 4)

\* min(50, max(5, total_samples // 4))
CalibrationCount(total_samples) == Min(50, Max(5, total_samples \div 4))

\* The split loop: index i (0-based) goes to calibration iff i < calibration_samples.
SplitCalibration(samples, calibration_samples) ==
    SubSeq(samples, 1, Min(calibration_samples, Len(samples)))

\* Mutant: the sample at index calibration_samples goes to neither list.
SplitTestAfter(samples, calibration_samples) ==
    SubSeq(samples, Min(calibration_samples, Len(samples)) + 2, Len(samples))

SplitTest(samples, calibration_samples) ==
    SubSeq(samples, Min(calibration_samples, Len(samples)) + 1, Len(samples))

\* mcqa_data after the split loop.
McqaData(samples) ==
    LET total_samples       == Len(samples)
        calibration_samples == CalibrationCount(total_samples)
    IN [name |-> "HEALTHVER_MCQA",
        description |-> "HealthVer dataset converted to MCQA format for evaluating health claim verification systems.",
        version |-> "1.0",
        total_samples |-> total_samples,
        calibration_samples |-> calibration_samples,
        test_samples |-> total_samples - calibration_samples,
        calibration |-> SplitCalibration(samples, calibration_samples),
        test |-> SplitTest(samples, calibration_samples)]

---------------------------------------------------------------------------
(* convert_healthver_to_mcqa *)

\* claim_files, in the order the dict is iterated
Splits == <<"dev", "test", "train", "fewshot">>

\* claim['source_split'] = split_name
Tag(claim, split_name) ==
    [key \in DOMAIN claim \cup {"source_split"} |->
        IF key = "source_split" THEN split_name ELSE claim[key]]

TagAll(claims, split_name) ==
    [k \in DOMAIN claims |-> Tag(claims[k], split_name)]

\* all_claims after the loading loop
MergeClaims(files) ==
    TagAll(files[Splits[1]], Splits[1]) \o TagAll(files[Splits[2]], Splits[2])
        \o TagAll(files[Splits[3]], Splits[3]) \o TagAll(files[Splits[4]], Splits[4])

NoData == [name |-> "None"]

NoSkips == [no_doc_ids |-> 0, majority_rule_skip |-> 0, no_corpus_match |-> 0]

\* Loading: the claims are merged and tagged; the function returns when there
\* is no claim or no corpus document, otherwise the corpus lookup is built.
LoadInputs ==
    /\ pc = "start"
    /\ all_claims' = MergeClaims(claim_files)
    /\ IF all_claims' = <<>> \/ corpus_data = <<>>
       THEN /\ pc' = "returned"
            /\ UNCHANGED corpus_dict
       ELSE /\ pc' = "process"
            /\ corpus_dict' = CorpusDict(corpus_data)
    /\ UNCHANGED <<claim_files, corpus_data, claim_to_question, seed, i,
                   valid_samples, skipped_counts, labels, correct_answer,
                   assembled, rng, mcqa_data, output_file, run, prev_seed,
                   prev_output>>

\* One iteration of the processing loop, on all_claims[i] (0-based index i).
ProcessClaim ==
    /\ pc = "process"
    /\ i < Len(all_claims)
    /\ LET claim   == all_claims[i + 1]
           doc_ids == Get(claim, "doc_ids", <<>>)
           res     == DetermineMajorityLabel(claim, corpus_dict)
       IN IF doc_ids = <<>>
          THEN /\ skipped_counts' =
                    [skipped_counts EXCEPT !.no_doc_ids = @ + 1]
               /\ i' = i + 1
               /\ UNCHANGED <<pc, valid_samples, labels, correct_answer>>
          ELSE IF res.raised
          THEN /\ pc' = "failed"
               /\ labels' = res.labels
               /\ UNCHANGED <<i, valid_samples, skipped_counts, correct_answer>>
          ELSE IF res.result = "None"
          THEN /\ skipped_counts' =
                    [skipped_counts EXCEPT !.majority_rule_skip = @ + 1]
               /\ labels' = res.labels
               /\ correct_answer' = res.result
               /\ i' = i + 1
               /\ UNCHANGED <<pc, valid_samples>>
          ELSE /\ valid_samples' =
                    Append(valid_samples,
                           MakeSample(claim, i, res.result, corpus_data,
                                      claim_to_question))
               /\ labels' = res.labels
               /\ correct_answer' = res.result
               /\ i' = i + 1
               /\ UNCHANGED <<pc, skipped_counts>>
    /\ UNCHANGED <<claim_files, corpus_data, claim_to_question, seed,
                   all_claims, corpus_dict, assembled, rng, mcqa_data,
                   output_file, run, prev_seed, prev_output>>

\* After the loop: return when no sample is valid.
EndProcessing ==
    /\ pc = "process"
    /\ i = Len(all_claims)
    /\ pc' = IF valid_samples = <<>> THEN "returned" ELSE "shuffle"
    /\ assembled' = valid_samples
    /\ UNCHANGED <<claim_files, corpus_data, claim_to_question, seed,
                   all_claims, corpus_dict, i, valid_samples, skipped_counts,
                   labels, correct_answer, rng, mcqa_data, output_file, run,
                   prev_seed, prev_output>>

\* random.shuffle(valid_samples)
ShuffleSamples ==
    /\ pc = "shuffle"
    /\ valid_samples' = RandomShuffle(valid_samples, rng).list
    /\ rng' = RandomShuffle(valid_samples, rng).state
    /\ pc' = "split"
    /\ UNCHANGED <<claim_files, corpus_data, claim_to_question, seed,
                   all_claims, corpus_dict, i, skipped_counts, labels,
                   correct_answer, assembled, mcqa_data, output_file, run,
                   prev_seed, prev_output>>

\* The counts and the split loop.
BuildDataset ==
    /\ pc = "split"
    /\ mcqa_data' = McqaData(valid_samples)
    /\ pc' = "save"
    /\ UNCHANGED <<claim_files, corpus_data, claim_to_question, seed,
                   all_claims, corpus_dict, i, valid_samples, skipped_counts,
                   labels, correct_answer, assembled, rng, output_file, run,
                   prev_seed, prev_output>>

\* json.dump(mcqa_data, f)
SaveOutput ==
    /\ pc = "save"
    /\ output_file' = mcqa_data
    /\ pc' = "done"
    /\ UNCHANGED <<claim_files, corpus_data, claim_to_question, seed,
                   all_claims, corpus_dict, i, valid_samples, skipped_counts,
                   labels, correct_answer, assembled, rng, mcqa_data, run,
                   prev_seed, prev_output>>

Next ==
    \/ LoadInputs
    \/ ProcessClaim
    \/ EndProcessing
    \/ ShuffleSamples
    \/ BuildDataset
    \/ SaveOutput

---------------------------------------------------------------------------
(* Inputs *)

\* Claims the merged list holds in the varied runs.
MaxClaims == 2

\* Claims of the largest bulk run (at least 6, so that the test list fills).
MaxBulk == 7

\* Seeds of the random source are 0..MaxSeed.
MaxSeed == 1

RawSupport == StrVal(<<"S","U","P","P","O","R","T">>)

RawSupports == StrVal(<<"s","u","p","p","o","r","t","s">>)

RawContradict == StrVal(<<"C","O","N","T","R","A","D","I","C","T">>)

RawRefutes == StrVal(<<"R","e","f","u","t","e","s">>)

RawNei == StrVal(<<"n","e","i">>)

RawNotEnoughInfo ==
    StrVal(<<"N","O","T","_","E","N","O","U","G","H","_","I","N","F","O">>)

RawUnknown == StrVal(<<"m","a","y","b","e">>)

RawEmpty == StrVal(<<>>)

Entry(label) == [sentences |-> <<0>>, label |-> label]

EntryNoLabel == [sentences |-> <<0>>]

Doc10 ==
    [doc_id |-> 10, title |-> "Title 10",
     abstract |-> ListVal(<<"First sentence.", "Second sentence.">>),
     label |-> RawSupports]

Doc10Dup ==
    [doc_id |-> 10, title |-> "Title 10 again",
     abstract |-> TextVal("One string."), label |-> RawRefutes]

Doc11 == [doc_id |-> 11, abstract |-> ListVal(<<>>)]

Doc11Null == [doc_id |-> 11, title |-> "Title 11", label |-> NullVal]

Doc12 ==
    [doc_id |-> 12, title |-> "Title 12", abstract |-> TextVal(""),
     label |-> RawUnknown]

Corpora ==
    { <<Doc10, Doc11>>, <<Doc10, Doc10Dup, Doc11Null, Doc12>>, <<>> }

Questions == "X causes Y" :> "Does X cause Y?"

Body(text, doc_ids, evidence) ==
    [claim |-> text, doc_ids |-> doc_ids, evidence |-> evidence]

ClaimBodies ==
    { Body(<<"X causes Y">>, <<10>>, "10" :> <<Entry(RawSupport)>>),
      Body(<<" ", "X causes Y">>, <<10, 12>>, "10" :> <<Entry(RawRefutes)>>),
      Body(<<"Masks work">>, <<11, 10>>,
           ("10" :> <<Entry(RawSupport)>>) @@ ("11" :> <<Entry(RawContradict)>>)),
      Body(<<"Masks work">>, <<11>>, "11" :> <<Entry(NullVal)>>),
      Body(<<"Masks work">>, <<11>>, "11" :> <<EntryNoLabel>>),
      [claim |-> <<"No documents">>, evidence |-> <<>>] }

WithId(body, id) ==
    [key \in DOMAIN body \cup {"id"} |-> IF key = "id" THEN id ELSE body[key]]

\* Claims of the varied runs: with an id, or without one.
VariedClaims ==
    {WithId(b, 1) : b \in ClaimBodies}
        \cup {b \in ClaimBodies : Len(Get(b, "doc_ids", <<>>)) = 1}

\* A merged list is a sequence of (split index, claim) in split order.
TaggedLists ==
    { q \in UNION { [1..n -> (DOMAIN Splits) \X VariedClaims] : n \in 0..MaxClaims } :
        \A k \in 1..(Len(q) - 1) : q[k][1] <= q[k + 1][1] }

RECURSIVE ClaimsOfSplit(_, _)
ClaimsOfSplit(q, s) ==
    IF q = <<>> THEN <<>>
    ELSE (IF Head(q)[1] = s THEN <<Head(q)[2]>> ELSE <<>>)
            \o ClaimsOfSplit(Tail(q), s)

FilesOf(q) == [name \in Range(Splits) |->
                 ClaimsOfSplit(q, CHOOSE s \in DOMAIN Splits : Splits[s] = name)]

\* Bulk runs: n claims in one file, ids 1..n, each citing one or two documents.
BulkBodies ==
    { Body(<<"X causes Y">>, <<10>>, "10" :> <<Entry(RawSupport)>>),
      Body(<<"Masks work">>, <<10, 12>>, "10" :> <<Entry(RawRefutes)>>) }

BulkLists(lo, hi) ==
    { [k \in DOMAIN bs |-> WithId(bs[k], k)] :
        bs \in UNION { [1..n -> BulkBodies] : n \in lo..hi } }

OneFile(name, claims) ==
    [n \in Range(Splits) |-> IF n = name THEN claims ELSE <<>>]

BulkFiles == {OneFile("train", cs) : cs \in BulkLists(6, MaxBulk)}

InitRun(seeds) ==
    /\ claim_to_question = Questions
    /\ seed \in seeds
    /\ rng = seed
    /\ pc = "start"
    /\ all_claims = <<>>
    /\ corpus_dict = <<>>
    /\ i = 0
    /\ valid_samples = <<>>
    /\ skipped_counts = NoSkips
    /\ labels = <<>>
    /\ correct_answer = "None"
    /\ assembled = <<>>
    /\ mcqa_data = NoData
    /\ output_file = NoData
    /\ run = 1
    /\ prev_seed = 0
    /\ prev_output = NoData

\* Few claims of every kind over every corpus, or many valid claims under
\* every seed.
Init ==
    \/ /\ \E q \in TaggedLists : claim_files = FilesOf(q)
       /\ corpus_data \in Corpora
       /\ InitRun({0})
    \/ /\ claim_files \in BulkFiles
       /\ corpus_data = <<Doc10, Doc11>>
       /\ InitRun(0..MaxSeed)

Spec == Init /\ [][Next]_vars

---------------------------------------------------------------------------
(* Inputs of the label aggregation runs: one claim, many evidence shapes *)

\* Cited documents of a claim are 10, 11, ... : at most MaxDocs of them.
MaxDocs == 2

\* Evidence entries of a claim, over all its documents.
MaxLabels == 4

WideLabels ==
    { RawSupport, RawSupports, RawContradict, RawRefutes, RawNei,
      RawNotEnoughInfo, RawUnknown, RawEmpty, NullVal }

\* The labels of the many-entry claims, by index.
NarrowLabels == <<RawSupport, RawContradict, RawNei>>

\* One cited document's place in the evidence mapping: absent, or the label
\* indices of its entries.
AbsentSlot == [present |-> FALSE, items |-> <<>>]

SlotChoices(room) ==
    {AbsentSlot} \cup
    { [present |-> TRUE, items |-> es] :
        es \in UNION { [1..n -> DOMAIN NarrowLabels] : n \in 0..room } }

\* The evidence shapes of a claim citing n documents, room entries at most.
RECURSIVE SlotLists(_, _)
SlotLists(n, room) ==
    IF n = 0 THEN {<<>>}
    ELSE UNION { { <<slot>> \o rest : rest \in SlotLists(n - 1, room - Len(slot.items)) } :
                    slot \in SlotChoices(room) }

CitedDocs(n) == [k \in 1..n |-> 9 + k]

EntriesOf(slot) == [k \in DOMAIN slot.items |-> Entry(NarrowLabels[slot.items[k]])]

\* The evidence mapping of the slots; stray adds a key no cited document has.
EvidenceOf(slots, stray) ==
    [key \in {ToString(9 + k) : k \in {m \in DOMAIN slots : slots[m].present}}
                \cup (IF stray THEN {"99"} ELSE {}) |->
        IF key = "99" THEN <<Entry(RawSupport)>>
        ELSE EntriesOf(slots[CHOOSE k \in DOMAIN slots : ToString(9 + k) = key])]

ClaimOf(slots, stray) ==
    WithId(Body(<<"X causes Y">>, CitedDocs(Len(slots)), EvidenceOf(slots, stray)), 1)

\* Every cited document has an entry in the evidence mapping.
Covered(slots) == \A k \in DOMAIN slots : slots[k].present

\* No cited document has one.
Uncited(slots) == \A k \in DOMAIN slots : ~slots[k].present

\* One document, one entry: every raw spelling, a missing label, a null label.
SingleClaims ==
    { WithId(Body(<<"X causes Y">>, <<d>>, ToString(d) :> <<e>>), 1) :
        d \in {10, 12, 13},
        e \in {Entry(l) : l \in WideLabels} \cup {EntryNoLabel} }

Doc11Contradict == [doc_id |-> 11, title |-> "Title 11", label |-> RawContradict]

Doc12Info == [doc_id |-> 12, label |-> RawNotEnoughInfo]

LabelCorpora ==
    { <<Doc10, Doc11>>, <<Doc10, Doc10Dup, Doc11Null, Doc12>>,
      <<Doc11Contradict, Doc12Info>> }

\* One claim: an entry for every cited document; or some document without
\* one, over every corpus; or one entry of every spelling.
InitLabel ==
    /\ \/ \E n \in 0..MaxDocs : \E slots \in SlotLists(n, MaxLabels) :
            /\ Covered(slots)
            /\ claim_files = OneFile("dev", <<ClaimOf(slots, FALSE)>>)
            /\ corpus_data = <<Doc10, Doc11>>
       \/ \E n \in 0..MaxDocs : \E slots \in SlotLists(n, MaxLabels) :
            /\ ~Covered(slots)
            /\ claim_files = OneFile("dev", <<ClaimOf(slots, FALSE)>>)
            /\ corpus_data \in LabelCorpora
       \/ \E n \in 0..MaxDocs : \E slots \in SlotLists(n, MaxLabels) :
            /\ Uncited(slots)
            /\ claim_files = OneFile("dev", <<ClaimOf(slots, TRUE)>>)
            /\ corpus_data \in LabelCorpora
       \/ /\ claim_files \in {OneFile("dev", <<c>>) : c \in SingleClaims}
          /\ corpus_data \in LabelCorpora
    /\ InitRun({0})

SpecLabel == InitLabel /\ [][Next]_vars

---------------------------------------------------------------------------
(* Inputs of the sizing runs: many valid samples *)

\* Valid samples of the largest sizing run.
MaxTotal == 204

InitCalib ==
    /\ claim_files \in
          { OneFile("dev", [k \in 1..n |->
                WithId(Body(<<"X causes Y">>, <<10>>, "10" :> <<Entry(RawSupport)>>), k)]) :
            n \in 1..MaxTotal }
    /\ corpus_data = <<Doc10>>
    /\ InitRun({0})

SpecCalib == InitCalib /\ [][Next]_vars

---------------------------------------------------------------------------
(* A second invocation on the same inputs *)

\* main() is run again on the same files; the random source is seeded anew.
Rerun ==
    /\ pc \in {"done", "returned", "failed"}
    /\ run < 2
    /\ run' = run + 1
    /\ prev_seed' = seed
    /\ prev_output' = output_file
    /\ seed' \in 0..MaxSeed
    /\ rng' = seed'
    /\ pc' = "start"
    /\ all_claims' = <<>>
    /\ corpus_dict' = <<>>
    /\ i' = 0
    /\ valid_samples' = <<>>
    /\ skipped_counts' = NoSkips
    /\ labels' = <<>>
    /\ correct_answer' = "None"
    /\ assembled' = <<>>
    /\ mcqa_data' = NoData
    /\ output_file' = NoData
    /\ UNCHANGED <<claim_files, corpus_data, claim_to_question>>

NextRerun == Next \/ Rerun

SpecRerun == Init /\ [][NextRerun]_vars

---------------------------------------------------------------------------
(* Properties of determine_majority_label, under SpecLabel *)

LetterOf == [SUPPORT |-> "A", CONTRADICT |-> "B", NEI |-> "C"]

Categories == {"SUPPORT", "CONTRADICT", "NEI"}

\* The single claim of the run has been processed.
Processed == Len(all_claims) = 1 /\ (i = 1 \/ pc = "failed")

TheDocIds == Get(all_claims[1], "doc_ids", <<>>)

TheEvidence == Get(all_claims[1], "evidence", <<>>)

\* C1: a call that resolved exactly two labels returns the common label when
\* they are equal, the non-NEI label when exactly one is NEI (in either
\* position), and skips the claim (None, no sample) on SUPPORT against
\* CONTRADICT.
C1_TwoLabels ==
    (pc # "failed" /\ Len(labels) = 2) =>
        /\ labels[1] = labels[2] => correct_answer = LetterOf[labels[1]]
        /\ \A x \in {"SUPPORT", "CONTRADICT"} :
              (labels = <<"NEI", x>> \/ labels = <<x, "NEI">>)
                  => correct_answer = LetterOf[x]
        /\ (labels = <<"SUPPORT", "CONTRADICT">> \/ labels = <<"CONTRADICT", "SUPPORT">>)
              => /\ correct_answer = "None"
                 /\ Processed => /\ valid_samples = <<>>
                                 /\ skipped_counts.majority_rule_skip = 1

C1_Witness ==
    /\ Processed
    /\ labels = <<"NEI", "CONTRADICT">>
    /\ correct_answer = "B"
    /\ Len(valid_samples) = 1

\* C2: a call that resolved three or more labels skips the claim when the two
\* highest category counts are equal, and otherwise returns the one category
\* whose count is strictly greater than every other category's.
C2_Plurality ==
    (pc # "failed" /\ Len(labels) >= 3) =>
        LET TopTie == \E a, b \in Categories :
                        /\ a # b
                        /\ Count(labels, a) = Count(labels, b)
                        /\ \A c \in Categories : Count(labels, c) <= Count(labels, a)
        IN /\ TopTie => correct_answer = "None"
           /\ ~TopTie => \E w \in Categories :
                            /\ \A c \in Categories \ {w} :
                                  Count(labels, c) < Count(labels, w)
                            /\ correct_answer = LetterOf[w]

C2_Witness ==
    /\ Processed
    /\ Len(labels) = 4
    /\ labels[1] = "NEI"
    /\ Count(labels, "CONTRADICT") = 2
    /\ Count(labels, "SUPPORT") = 1
    /\ correct_answer = "B"

\* The position in labels before the labels of the k-th cited document.
RECURSIVE LabelOffset(_)
LabelOffset(k) ==
    IF k <= 1 THEN 0
    ELSE LabelOffset(k - 1)
            + (IF ToString(TheDocIds[k - 1]) \in DOMAIN TheEvidence
               THEN Len(TheEvidence[ToString(TheDocIds[k - 1])])
               ELSE 1)

\* C3: the label list holds exactly one label per cited document, the label
\* of the first evidence entry for a document the evidence mapping knows
\* (stated for claims whose known documents carry at least one entry each).
C3_OneLabelPerDocument ==
    (/\ Processed /\ pc # "failed" /\ TheDocIds # <<>> /\ DOMAIN TheEvidence # {}
     /\ \A key \in DOMAIN TheEvidence : TheEvidence[key] # <<>>) =>
        /\ Len(labels) = Len(TheDocIds)
        /\ \A k \in DOMAIN TheDocIds :
              (/\ ToString(TheDocIds[k]) \in DOMAIN TheEvidence
               /\ TheEvidence[ToString(TheDocIds[k])] # <<>>)
                  => labels[k] = NormalizeLabel(
                        Get(TheEvidence[ToString(TheDocIds[k])][1], "label", DefaultLabel))

\* A cited document the evidence mapping does not know, with a corpus label.
CorpusLabelled(k) ==
    /\ ToString(TheDocIds[k]) \notin DOMAIN TheEvidence
    /\ ToString(TheDocIds[k]) \in DOMAIN corpus_dict
    /\ "label" \in DOMAIN corpus_dict[ToString(TheDocIds[k])]
    /\ corpus_dict[ToString(TheDocIds[k])].label.type = "str"

\* The label of the k-th cited document is the normalised corpus label.
UsesCorpusLabel(k) ==
    /\ pc # "failed" => Len(labels) > LabelOffset(k)
    /\ Len(labels) > LabelOffset(k) =>
          labels[LabelOffset(k) + 1] =
              NormalizeLabel(corpus_dict[ToString(TheDocIds[k])].label)

\* C4 as stated: the corpus label is used for every claim with cited
\* documents, also when the evidence mapping is empty.
C4_Original ==
    (Processed /\ TheDocIds # <<>>) =>
        \A k \in DOMAIN TheDocIds : CorpusLabelled(k) => UsesCorpusLabel(k)

\* C4 (amended): the corpus label is used for a cited document without an
\* evidence entry when the evidence mapping is not empty; a claim whose
\* evidence mapping is empty is skipped and no label is resolved.
C4_CorpusFallback ==
    (Processed /\ TheDocIds # <<>>) =>
        /\ DOMAIN TheEvidence # {} =>
              \A k \in DOMAIN TheDocIds : CorpusLabelled(k) => UsesCorpusLabel(k)
        /\ DOMAIN TheEvidence = {} =>
              /\ labels = <<>>
              /\ correct_answer = "None"
              /\ valid_samples = <<>>
              /\ skipped_counts.majority_rule_skip = 1

C4_Witness ==
    /\ Processed
    /\ TheDocIds = <<10, 11>>
    /\ DOMAIN TheEvidence = {"10"}
    /\ CorpusLabelled(2)
    /\ labels = <<"NEI", "CONTRADICT">>
    /\ correct_answer = "B"

\* The raw label behind the only label of a claim citing one document.
TheRawLabel ==
    IF ToString(TheDocIds[1]) \in DOMAIN TheEvidence
    THEN Get(TheEvidence[ToString(TheDocIds[1])][1], "label", DefaultLabel)
    ELSE Get(corpus_dict[ToString(TheDocIds[1])], "label", DefaultLabel)

\* C5: with exactly one resolved label the answer, and the sample's
\* correct_answer, is the letter of that label; SUPPORT/SUPPORTS give A,
\* CONTRADICT/REFUTES give B, NEI/NOT_ENOUGH_INFO and any other string give C,
\* in any letter case.
C5_SingleLabel ==
    (pc # "failed" /\ Len(labels) = 1) =>
        /\ correct_answer = LetterOf[labels[1]]
        /\ (Processed /\ Len(TheDocIds) = 1
                /\ (ToString(TheDocIds[1]) \in DOMAIN TheEvidence
                        \/ ToString(TheDocIds[1]) \in DOMAIN corpus_dict)) =>
              /\ Len(valid_samples) = 1
              /\ valid_samples[1].correct_answer = correct_answer
              /\ TheRawLabel \in {RawSupport, RawSupports} => correct_answer = "A"
              /\ TheRawLabel \in {RawContradict, RawRefutes} => correct_answer = "B"
              /\ TheRawLabel \in {RawNei, RawNotEnoughInfo, RawUnknown, RawEmpty}
                    => correct_answer = "C"

C5_Witness ==
    /\ Processed
    /\ TheDocIds = <<12>>
    /\ DOMAIN TheEvidence = {"12"}
    /\ TheRawLabel = RawRefutes
    /\ labels = <<"CONTRADICT">>
    /\ valid_samples # <<>>
    /\ valid_samples[1].correct_answer = "B"

---------------------------------------------------------------------------
(* Properties of convert_healthver_to_mcqa *)

\* C6: the calibration count written is clamp(floor(total/4), 5, 50): 5 below
\* 24 samples, floor(total/4) from 24 to 199, 50 from 200 on; hence between 5
\* and 50 from 20 samples on.  Checked under SpecCalib.
C6_CalibrationCount ==
    pc = "done" =>
        LET total == output_file.total_samples
            count == output_file.calibration_samples
        IN /\ total = Len(assembled)
           /\ total >= 1
           /\ total < 24 => count = 5
           /\ (24 <= total /\ total < 200) =>
                 /\ 4 * count <= total
                 /\ total < 4 * count + 4
           /\ total >= 200 => count = 50
           /\ total >= 20 => (5 <= count /\ count <= 50)

C6_Witness ==
    /\ pc = "done"
    /\ output_file.total_samples = 203
    /\ output_file.calibration_samples = 50

SameBag(a, b) ==
    \A x \in Range(a) \cup Range(b) : Count(a, x) = Count(b, x)

\* C7: after the split the calibration and test lists together hold every
\* assembled sample exactly once, unchanged, and their lengths add up to
\* total_samples, the number of claims that were not skipped.
C7_Partition ==
    pc \in {"save", "done"} =>
        /\ SameBag(mcqa_data.calibration \o mcqa_data.test, assembled)
        /\ Len(mcqa_data.calibration) + Len(mcqa_data.test) = Len(assembled)
        /\ Len(mcqa_data.calibration) + Len(mcqa_data.test) = mcqa_data.total_samples
        /\ mcqa_data.total_samples =
              Len(all_claims) - skipped_counts.no_doc_ids
                              - skipped_counts.majority_rule_skip
        /\ pc = "done" => output_file = mcqa_data

C7_Witness ==
    /\ pc = "done"
    /\ Len(output_file.calibration) = 5
    /\ Len(output_file.test) = 2
    /\ output_file.calibration \o output_file.test # assembled

\* The record expected for a cited id: title and abstract of the corpus
\* document of that id, the placeholders when the corpus has none.
BuiltFrom(record, doc_id) ==
    LET key == ToString(doc_id)
    IN IF \E k \in DOMAIN corpus_data : ToString(corpus_data[k].doc_id) = key
       THEN LET doc == corpus_dict[key]
            IN /\ "title" \in DOMAIN doc => record.page_name = doc.title
               /\ "title" \notin DOMAIN doc =>
                     record.page_name = "Health Document " \o key
               /\ ("abstract" \in DOMAIN doc /\ doc.abstract.type = "list") =>
                     record.page_snippet = JoinSpace(doc.abstract.items)
       ELSE /\ record.page_name = "Health Document " \o key
            /\ record.page_snippet = "Health-related content"

\* C8: the sample appended for a claim has one context record per cited
\* document id, the k-th built from the k-th id: none padded in, dropped, or
\* taken from a document the claim does not cite.
C8_ContextRecords ==
    [][ (pc = "process" /\ Len(valid_samples') = Len(valid_samples) + 1) =>
            LET doc_ids == all_claims[i + 1].doc_ids
                records == valid_samples'[Len(valid_samples')].search_results
            IN /\ Len(records) = Len(doc_ids)
               /\ \A k \in DOMAIN doc_ids : BuiltFrom(records[k], doc_ids[k]) ]_vars

C8_Witness ==
    /\ pc = "process"
    /\ \E k \in DOMAIN valid_samples :
          LET records == valid_samples[k].search_results
          IN /\ Len(records) = 2
             /\ records[1].page_name = "Title 10"
             /\ records[1].page_snippet = "First sentence. Second sentence."
             /\ records[2].page_name = "Health Document 12"
             /\ records[2].page_snippet = "Health-related content"
    /\ "12" \notin DOMAIN corpus_dict

\* C9: processing a claim never ends in a hard failure.
C9_NoHardFailure == pc # "failed"

---------------------------------------------------------------------------
(* Properties of the written dataset *)

\* The samples of the dataset, calibration list first.
WrittenSamples == mcqa_data.calibration \o mcqa_data.test

\* The identifier the claim at position k (1-based) of the merged list gets.
IdentifierOf(k) ==
    all_claims[k].source_split \o "_"
        \o ToString(Get(all_claims[k], "id", k - 1))

\* No two claims of one source split carry the same raw id.
RawIdsDistinct ==
    \A a, b \in DOMAIN all_claims :
        (/\ a # b
         /\ all_claims[a].source_split = all_claims[b].source_split
         /\ "id" \in DOMAIN all_claims[a]
         /\ "id" \in DOMAIN all_claims[b])
            => all_claims[a].id # all_claims[b].id

\* C11: every sample identifier is "{source_split}_{claim id}" of a claim of
\* the merged list (its position when it has no id), and no two samples of one
\* dataset have the same identifier, given that the raw ids of one split are
\* distinct.
C11_UniqueIdentifiers ==
    pc \in {"save", "done"} =>
        /\ \A k \in DOMAIN WrittenSamples :
              \E c \in DOMAIN all_claims : WrittenSamples[k].id = IdentifierOf(c)
        /\ RawIdsDistinct =>
              \A a, b \in DOMAIN WrittenSamples :
                  a # b => WrittenSamples[a].id # WrittenSamples[b].id

\* Exactly one of the two content fields of a context record is populated.
OneContentField(record) ==
    (record.page_snippet # "") # (record.page_result # "")

\* C12: in every context record of every sample, page_url and
\* page_last_modified are empty and exactly one of page_snippet and
\* page_result is non-empty, whatever the corpus holds for the cited document.
C12_RecordFields ==
    \A k \in DOMAIN valid_samples :
        \A r \in DOMAIN valid_samples[k].search_results :
            LET record == valid_samples[k].search_results[r]
            IN /\ record.page_url = ""
               /\ record.page_last_modified = ""
               /\ OneContentField(record)

\* C13: in every dataset written, the recorded counts describe the lists:
\* calibration_samples is the length of calibration, test_samples is the
\* length of test and is not negative, for every number of valid samples from
\* 1 on.  Checked under SpecCalib.
C13_CountsDescribeLists ==
    pc = "done" =>
        /\ Len(assembled) >= 1
        /\ output_file.calibration_samples = Len(output_file.calibration)
        /\ output_file.test_samples = Len(output_file.test)
        /\ output_file.test_samples >= 0

====
